---- MODULE Spec2Model ----
(***************************************************************************)
(* Model of source.py: simulate_brownian_motion, the two path transforms   *)
(* (W_t^2 - t and the exponential martingale), verify_martingale_property  *)
(* (the average path), and of the session-state cache of the streamlit     *)
(* shell that test_app.py exercises.                                       *)
(*                                                                         *)
(* Numbers.  The program computes in float64.  The model computes exactly, *)
(* in the field Q(sqrt f): a finite number is a + b*sqrt(f) with a, b      *)
(* rational and f a square-free integer, which is closed under everything  *)
(* the simulator and the squared transform do (T / N_steps, sqrt(dt),      *)
(* scale * z, sums, squares, differences).  NaN is a value of its own.     *)
(* exp of a non-zero argument and sums of such values are kept as terms.   *)
(* Rounding is not modelled.                                               *)
(***************************************************************************)
EXTENDS Integers, Sequences, FiniteSets

VARIABLES
  \* the module-wide generator np.random: its state
  rng,
  \* source.py run as a script, with its constants as inputs
  pc, T, N_steps, N_paths, theta_param,
  time_points_bm, Wt_paths_bm,
  Wt_squared_minus_t_paths, exponential_martingale_paths,
  figure,
  \* what the last simulate_brownian_motion call did: its locals dt and dW,
  \* the error it raised, the arrays it allocated, the samples it drew, and
  \* the pair it returned
  dt, dW, error, allocated, drawn, returned,
  \* the result of the previous generate_squared_brownian_motion_martingale call
  previous_squared,
  \* concurrent callers of the core functions, each with its own locals
  call, rng0,
  \* the shell's session state and the last thing the user did
  session_state, last_event

scriptVars ==
  <<pc, T, N_steps, N_paths, theta_param, time_points_bm, Wt_paths_bm,
    Wt_squared_minus_t_paths, exponential_martingale_paths, figure,
    dt, dW, error, allocated, drawn, returned, previous_squared>>
callVars == <<call, rng0>>
shellVars == <<session_state, last_event>>
vars == <<rng, scriptVars, callVars, shellVars>>

\* ------------------------------------------------------------------ bounds
MaxTNum == 2
MaxSteps == 3
MaxPaths == 3
RngMod == 8
MaxParSteps == 2
MaxParPaths == 2

\* ---------------------------------------------------------------- rationals
Abs(i) == IF i < 0 THEN -i ELSE i

RECURSIVE GCD(_, _)
GCD(m, n) == IF n = 0 THEN m ELSE GCD(n, m % n)

\* The rational n/d in lowest terms with a positive denominator.
Rat(n, d) ==
  LET g == GCD(Abs(n), Abs(d))
      s == IF d < 0 THEN -1 ELSE 1
  IN  <<(s * n) \div g, (s * d) \div g>>

R0 == <<0, 1>>
RAdd(x, y) == Rat(x[1] * y[2] + y[1] * x[2], x[2] * y[2])
RSub(x, y) == Rat(x[1] * y[2] - y[1] * x[2], x[2] * y[2])
RMul(x, y) == Rat(x[1] * y[1], x[2] * y[2])
RDiv(x, y) == Rat(x[1] * y[2], x[2] * y[1])
RLess(x, y) == x[1] * y[2] < y[1] * x[2]

\* ------------------------------------------------------------------ numbers
\* a + b*sqrt(f); f = 1 exactly when b = 0.
Num(a, b, f) ==
  [k |-> "num", a |-> a, b |-> b, f |-> IF b = R0 THEN 1 ELSE f, args |-> <<>>]
NaN == [k |-> "nan", a |-> R0, b |-> R0, f |-> 1, args |-> <<>>]
\* An unevaluated term: exp(x) for x # 0, and sums and quotients of such terms.
Term(op, args) == [k |-> op, a |-> R0, b |-> R0, f |-> 1, args |-> args]

FromInt(i) == Num(Rat(i, 1), R0, 1)
Frac(n, d) == Num(Rat(n, d), R0, 1)
Zero == FromInt(0)
One == FromInt(1)
Half == Frac(1, 2)

IsNum(x) == x.k = "num"
IsNaN(x) == x.k = "nan"
Radicand(x, y) == IF x.b # R0 THEN x.f ELSE y.f

Add(x, y) ==
  CASE IsNaN(x) \/ IsNaN(y) -> NaN
    [] IsNum(x) /\ IsNum(y) -> Num(RAdd(x.a, y.a), RAdd(x.b, y.b), Radicand(x, y))
    [] OTHER -> Term("add", <<x, y>>)

Sub(x, y) ==
  CASE IsNaN(x) \/ IsNaN(y) -> NaN
    [] IsNum(x) /\ IsNum(y) -> Num(RSub(x.a, y.a), RSub(x.b, y.b), Radicand(x, y))
    [] OTHER -> Term("sub", <<x, y>>)

Mul(x, y) ==
  CASE IsNaN(x) \/ IsNaN(y) -> NaN
    [] IsNum(x) /\ IsNum(y) ->
         LET f == Radicand(x, y)
         IN  Num(RAdd(RMul(x.a, y.a), RMul(RMul(x.b, y.b), Rat(f, 1))),
                 RAdd(RMul(x.a, y.b), RMul(x.b, y.a)), f)
    [] OTHER -> Term("mul", <<x, y>>)

\* x / y for a rational y.  y = 0 is reached only as 0.0 / 0 (the mean of an
\* empty column), which is NaN.
Div(x, y) ==
  CASE IsNaN(x) \/ IsNaN(y) -> NaN
    [] y = Zero -> NaN
    [] IsNum(x) /\ IsNum(y) -> Num(RDiv(x.a, y.a), RDiv(x.b, y.a), x.f)
    [] y = One -> x
    [] OTHER -> Term("div", <<x, y>>)

Less(x, y) == IsNum(x) /\ IsNum(y) /\ RLess(x.a, y.a)

\* The largest m with m*m dividing n (n >= 1).
SquarePart(n) ==
  CHOOSE m \in 1..n : n % (m * m) = 0 /\ \A j \in (m + 1)..n : n % (j * j) # 0

\* np.sqrt of a rational: NaN below zero, else sqrt(p/q) = (m/q)*sqrt(f) with
\* p*q = m*m*f and f square-free.
Sqrt(x) ==
  CASE ~IsNum(x) -> NaN
    [] RLess(x.a, R0) -> NaN
    [] x = Zero -> Zero
    [] OTHER ->
         LET n == x.a[1] * x.a[2]
             m == SquarePart(n)
             f == n \div (m * m)
         IN  IF f = 1 THEN Num(Rat(m, x.a[2]), R0, 1)
                      ELSE Num(R0, Rat(m, x.a[2]), f)

\* np.exp: exp(0) is 1, exp(NaN) is NaN, any other value stays a term.
Exp(x) ==
  CASE IsNaN(x) -> NaN
    [] x = Zero -> One
    [] OTHER -> Term("exp", <<x>>)

\* ------------------------------------------------------------------- arrays
\* A 1-D array is a sequence of numbers.  A 2-D array carries its shape, so
\* that an array with no rows still has its column count.
Array2(P, M, data) == [shape |-> <<P, M>>, data |-> data]
Rows(A) == A.shape[1]
Cols(A) == A.shape[2]
\* The value of a name that has not been bound yet; simulate never returns it
\* (its ensembles have N_steps + 1 >= 2 columns).
NoArray == [shape |-> <<0, 0>>, data |-> <<>>]

Min(i, j) == IF i < j THEN i ELSE j

\* np.linspace(start, stop, num) for num >= 0, endpoint=True:
\* step = (stop - start) / (num - 1), y[i] = i * step + start, and the last
\* point is set to stop itself.
LinSpace_noEndpoint(start, stop, num) ==
  LET step == Div(Sub(stop, start), FromInt(num))
  IN  [i \in 1..num |-> Add(Mul(FromInt(i - 1), step), start)]
LinSpace(start, stop, num) ==
  LET div == num - 1
      step == Div(Sub(stop, start), FromInt(div))
  IN  [i \in 1..num |->
         IF num > 1 /\ i = num THEN stop
         ELSE IF div > 0 THEN Add(Mul(FromInt(i - 1), step), start)
         ELSE start]

\* np.zeros((P, M))
Zeros(P, M) == Array2(P, M,
    [p \in 1..P |-> [k \in 1..M |->
      Zero]])

\* ------------------------------------------------- the global random source
\* np.random is one module-wide generator: a deterministic state machine that
\* every draw reads and advances.  It is modelled as a congruential generator
\* of period at most RngMod whose outputs are the standard-normal samples
\* -1, 0, 1; the seed is whatever state the generator is found in.
RngNext(s) == (5 * s + 3) % RngMod
RngOut(s) == (s % 3) - 1
RECURSIVE RngSkip(_, _)
RngSkip(s, n) == IF n = 0 THEN s ELSE RngSkip(RngNext(s), n - 1)

\* np.random.normal(loc, scale, size=(P, N)): P*N samples taken from the
\* generator in row-major order, each loc + scale * z.  A NaN scale passes
\* the generator's scale >= 0 test and gives NaN samples.
Normal(loc, scale, P, N, s) ==
  Array2(P, N,
    [p \in 1..P |-> [j \in 1..N |->
      Add(loc, Mul(scale, FromInt(RngOut(RngSkip(s, (p - 1) * N + (j - 1))))))]])

\* np.cumsum(A, axis=1): the running sum along each row.
RECURSIVE RunningSum(_, _)
RunningSum(row, j) ==
  IF j = 1 THEN row[1] ELSE Add(RunningSum(row, j - 1), row[j])
RECURSIVE RunningSumDown(_, _, _)
RunningSumDown(A, p, j) ==
  IF p = 1 THEN A.data[1][j] ELSE Add(RunningSumDown(A, p - 1, j), A.data[p][j])
CumSum_axis0(A) ==
  Array2(Rows(A), Cols(A),
    [p \in 1..Rows(A) |-> [j \in 1..Cols(A) |->
      RunningSumDown(A, p, j)]])
CumSum(A) ==
  Array2(Rows(A), Cols(A),
    [p \in 1..Rows(A) |-> [j \in 1..Cols(A) |->
      RunningSum(A.data[p], j)]])

\* Wt_paths[:, 1:] = C   (source.py line 28)
SetTail_fromColumn0(W, C) ==
  Array2(Rows(C), Cols(C),
    [p \in 1..Rows(C) |-> [k \in 1..Cols(C) |->
      C.data[p][k]]])
SetTail(W, C) ==
  Array2(Rows(W), Cols(W),
    [p \in 1..Rows(W) |-> [k \in 1..Cols(W) |->
      IF k = 1 THEN W.data[p][1] ELSE C.data[p][k - 1]]])

\* -------------------------------------------------- simulate_brownian_motion
\* The whole call from generator state s, for N_steps >= 0 and N_paths >= 0:
\* what it raises or returns, the number of arrays it allocated, the samples
\* it drew and the generator state it leaves.  The function checks nothing;
\* the one statement that can fail is the division of line 18.
simulate_brownian_motion(T_, N_steps_, N_paths_, s) ==
  IF N_steps_ = 0
  THEN [outcome |-> "raised", error |-> "ZeroDivisionError", allocated |-> 0,
        dt |-> Zero, time_points |-> <<>>, dW |-> NoArray,
        Wt_paths |-> NoArray, rng |-> s, drawn |-> 0]
  ELSE
    LET dt_ == Div(T_, FromInt(N_steps_))
        time_points == LinSpace(Zero, T_, N_steps_ + 1)
        dW_ == Normal(Zero, Sqrt(dt_), N_paths_, N_steps_, s)
        Wt_paths == SetTail(Zeros(N_paths_, N_steps_ + 1), CumSum(dW_))
    IN  [outcome |-> "returned", error |-> "", allocated |-> 4,
         dt |-> dt_, time_points |-> time_points, dW |-> dW_,
         Wt_paths |-> Wt_paths,
         rng |-> RngSkip(s, N_paths_ * N_steps_),
         drawn |-> N_paths_ * N_steps_]

\* ------------------------------------------------------------ the transforms
\* A - b for A of shape (P, M) and b of shape (M,): numpy aligns the trailing
\* axes, so b[k] meets column k of every row.
BroadcastSub_leadingAxisFirst(A, b) ==
  Array2(Rows(A), Cols(A),
    [p \in 1..Rows(A) |-> [k \in 1..Cols(A) |->
      Sub(A.data[p][k], IF Rows(A) = Len(b) THEN b[p] ELSE b[k])]])
BroadcastSub(A, b) ==
  Array2(Rows(A), Cols(A),
    [p \in 1..Rows(A) |-> [k \in 1..Cols(A) |->
      Sub(A.data[p][k], b[k])]])

Square(A) == Array2(Rows(A), Cols(A),
    [p \in 1..Rows(A) |-> [k \in 1..Cols(A) |->
      Mul(A.data[p][k], A.data[p][k])]])
Scale(c, A) == Array2(Rows(A), Cols(A),
    [p \in 1..Rows(A) |-> [k \in 1..Cols(A) |->
      Mul(c, A.data[p][k])]])
Scale1(c, b) == [k \in 1..Len(b) |-> Mul(c, b[k])]
ExpAll(A) == Array2(Rows(A), Cols(A),
    [p \in 1..Rows(A) |-> [k \in 1..Cols(A) |->
      Exp(A.data[p][k])]])

\* Wt_paths**2 - time_points
generate_squared_brownian_motion_martingale(Wt_paths, time_points) ==
  BroadcastSub(Square(Wt_paths), time_points)

\* np.exp(theta * Wt_paths - 0.5 * theta**2 * time_points)
generate_exponential_martingale_noThetaSquared(Wt_paths, time_points, theta) ==
  ExpAll(BroadcastSub(Scale(theta, Wt_paths), Scale1(Half, time_points)))
generate_exponential_martingale(Wt_paths, time_points, theta) ==
  ExpAll(BroadcastSub(Scale(theta, Wt_paths),
                      Scale1(Mul(Half, Mul(theta, theta)), time_points)))

\* ------------------------------------------------------------ the average path
\* np.mean(A, axis=0): the sum down each column divided by the row count.
RECURSIVE SumDown(_, _, _)
SumDown(A, p, k) ==
  IF p = 0 THEN Zero
  ELSE IF p = 1 THEN A.data[1][k]
  ELSE Add(SumDown(A, p - 1, k), A.data[p][k])
RECURSIVE SumAcross(_, _)
SumAcross(row, k) ==
  IF k = 0 THEN Zero
  ELSE IF k = 1 THEN row[1]
  ELSE Add(SumAcross(row, k - 1), row[k])
Mean_axis1(A) ==
  [p \in 1..Rows(A) |-> Div(SumAcross(A.data[p], Cols(A)), FromInt(Cols(A)))]
Mean(A) ==
  [k \in 1..Cols(A) |-> Div(SumDown(A, Rows(A), k), FromInt(Rows(A)))]

\* verify_martingale_property: the ensemble it was given, and what it draws
\* from it: up to MaxPlotted sample paths, the average path
\* np.mean(process_paths, axis=0), and a baseline at its first value.
MaxPlotted == 10
NoFigure ==
  [name |-> "", process_paths |-> NoArray, lines |-> 0, average_path |-> <<>>,
   baseline |-> Zero]
verify_martingale_property(time_points, process_paths, process_name) ==
  LET average_path == Mean(process_paths)
  IN  [name |-> process_name,
       process_paths |-> process_paths,
       lines |-> Min(MaxPlotted, Rows(process_paths)),
       average_path |-> average_path,
       baseline |-> average_path[1]]

\* ---------------------------------------------------------------- the script
\* source.py run as a script, with its constants T, N_steps, N_paths and
\* theta_param taken from sets.  After line 38 the script only calls the
\* transforms and verify_martingale_property on the module's names; here
\* those calls are taken in any order and any number of times (the script
\* takes each once, in file order).
ThetaSet == {Zero, Half, FromInt(-1)}

NoCalls == <<>>
NoSession == [current_page |-> "none"]
IdleOthers ==
  /\ call = NoCalls /\ rng0 = 0
  /\ session_state = NoSession /\ last_event = "none"

InitScript(Ts, Ns, Ps) ==
  /\ pc = "start"
  /\ T \in Ts /\ N_steps \in Ns /\ N_paths \in Ps
  /\ theta_param = Half
  /\ rng \in 0..(RngMod - 1)
  /\ time_points_bm = <<>> /\ Wt_paths_bm = NoArray
  /\ Wt_squared_minus_t_paths = NoArray
  /\ exponential_martingale_paths = NoArray
  /\ figure = NoFigure
  /\ dt = Zero /\ dW = NoArray /\ error = "" /\ allocated = 0 /\ drawn = 0
  /\ returned = [time_points |-> <<>>, Wt_paths |-> NoArray]
  /\ previous_squared = NoArray
  /\ IdleOthers

\* Valid parameters: T > 0, N_steps >= 1, N_paths >= 1.
Init ==
  InitScript({Frac(i, 2) : i \in 1..MaxTNum}, 1..MaxSteps, 1..MaxPaths)

\* Any horizon and any counts from 0 up: the invalid T <= 0, N_steps = 0 and
\* N_paths = 0 included.
InitAny ==
  InitScript({Frac(i, 2) : i \in (-1)..MaxTNum}, 0..MaxSteps, 0..MaxPaths)

\* time_points_bm, Wt_paths_bm = simulate_brownian_motion(T, N_steps, N_paths)
Simulate ==
  /\ pc = "start"
  /\ LET r == simulate_brownian_motion(T, N_steps, N_paths, rng)
     IN  /\ pc' = IF r.outcome = "returned" THEN "ready" ELSE "raised"
         /\ error' = r.error
         /\ allocated' = r.allocated
         /\ drawn' = r.drawn
         /\ rng' = r.rng
         /\ dt' = r.dt
         /\ dW' = r.dW
         /\ time_points_bm' = r.time_points
         /\ Wt_paths_bm' = r.Wt_paths
         /\ returned' = [time_points |-> r.time_points, Wt_paths |-> r.Wt_paths]
  /\ UNCHANGED <<T, N_steps, N_paths, theta_param, Wt_squared_minus_t_paths,
                 exponential_martingale_paths, figure, previous_squared,
                 callVars, shellVars>>

Draw(process_paths, process_name) ==
  /\ pc = "ready"
  /\ figure' = verify_martingale_property(time_points_bm, process_paths, process_name)
  /\ UNCHANGED <<rng, pc, T, N_steps, N_paths, theta_param, time_points_bm,
                 Wt_paths_bm, Wt_squared_minus_t_paths,
                 exponential_martingale_paths, dt, dW, error, allocated, drawn,
                 returned, previous_squared, callVars, shellVars>>

\* verify_martingale_property(time_points_bm, Wt_paths_bm, ...)        line 79
VerifyBrownian ==
  /\ Wt_paths_bm # NoArray
  /\ Draw(Wt_paths_bm, "W_t")

\* Wt_squared_minus_t_paths = generate_squared_brownian_motion_martingale(...)
GenerateSquared_inPlace ==
  /\ pc = "ready"
  /\ previous_squared' = Wt_squared_minus_t_paths
  /\ Wt_paths_bm' = Square(Wt_paths_bm)
  /\ Wt_squared_minus_t_paths' = BroadcastSub(Wt_paths_bm', time_points_bm)
  /\ UNCHANGED <<rng, pc, T, N_steps, N_paths, theta_param, time_points_bm,
                 exponential_martingale_paths, figure, dt, dW, error, allocated,
                 drawn, returned, callVars, shellVars>>
GenerateSquared ==
  /\ pc = "ready"
  /\ previous_squared' = Wt_squared_minus_t_paths
  /\ Wt_squared_minus_t_paths' =
       generate_squared_brownian_motion_martingale(Wt_paths_bm, time_points_bm)
  /\ UNCHANGED <<rng, pc, T, N_steps, N_paths, theta_param, time_points_bm,
                 Wt_paths_bm, exponential_martingale_paths, figure, dt, dW,
                 error, allocated, drawn, returned, callVars, shellVars>>

\* verify_martingale_property(time_points_bm, Wt_squared_minus_t_paths, ...)
VerifySquared ==
  /\ Wt_squared_minus_t_paths # NoArray
  /\ Draw(Wt_squared_minus_t_paths, "W_t^2 - t")

\* theta_param = ...; exponential_martingale_paths =
\*   generate_exponential_martingale(Wt_paths_bm, time_points_bm, theta_param)
GenerateExponential ==
  /\ pc = "ready"
  /\ \E theta \in ThetaSet :
       /\ theta_param' = theta
       /\ exponential_martingale_paths' =
            generate_exponential_martingale(Wt_paths_bm, time_points_bm, theta)
  /\ UNCHANGED <<rng, pc, T, N_steps, N_paths, time_points_bm, Wt_paths_bm,
                 Wt_squared_minus_t_paths, figure, dt, dW, error, allocated,
                 drawn, returned, previous_squared, callVars, shellVars>>

\* verify_martingale_property(time_points_bm, exponential_martingale_paths, ...)
VerifyExponential ==
  /\ exponential_martingale_paths # NoArray
  /\ Draw(exponential_martingale_paths, "exp")

Next ==
  \/ Simulate
  \/ VerifyBrownian
  \/ GenerateSquared
  \/ VerifySquared
  \/ GenerateExponential
  \/ VerifyExponential

Spec == Init /\ [][Next]_vars
SpecAny == InitAny /\ [][Next]_vars

\* ------------------------------------------------- calls that interleave
\* Two callers run the core on their own parameter sets, statement by
\* statement and in any order.  Each has its own locals; np.random is the one
\* generator of the module.  A call of np.random.normal fills its whole batch
\* under the generator's lock, so a batch is one step.
Callers == {1, 2}

ScriptIdle ==
  /\ pc = "idle"
  /\ T = One /\ N_steps = 1 /\ N_paths = 1 /\ theta_param = Half
  /\ time_points_bm = <<>> /\ Wt_paths_bm = NoArray
  /\ Wt_squared_minus_t_paths = NoArray
  /\ exponential_martingale_paths = NoArray
  /\ figure = NoFigure
  /\ dt = Zero /\ dW = NoArray /\ error = "" /\ allocated = 0 /\ drawn = 0
  /\ returned = [time_points |-> <<>>, Wt_paths |-> NoArray]
  /\ previous_squared = NoArray

NewCall(N, P) ==
  [pc |-> "line18", T |-> One, N_steps |-> N, N_paths |-> P,
   dt |-> Zero, time_points |-> <<>>, dW |-> NoArray, Wt_paths |-> NoArray,
   squared |-> NoArray, average_path |-> <<>>, rng_seen |-> 0]

InitCalls ==
  /\ rng \in 0..(RngMod - 1)
  /\ rng0 = rng
  /\ call \in [Callers -> {NewCall(N, P) : N \in 1..MaxParSteps, P \in 1..MaxParPaths}]
  /\ ScriptIdle
  /\ session_state = NoSession /\ last_event = "none"

\* dt = T / N_steps; time_points = np.linspace(0, T, N_steps + 1)
CallGrid(c) ==
  /\ call[c].pc = "line18"
  /\ call' = [call EXCEPT
       ![c].dt = Div(call[c].T, FromInt(call[c].N_steps)),
       ![c].time_points = LinSpace(Zero, call[c].T, call[c].N_steps + 1),
       ![c].pc = "line23"]
  /\ UNCHANGED <<rng, rng0, scriptVars, shellVars>>

\* dW = np.random.normal(loc=0.0, scale=np.sqrt(dt), size=(N_paths, N_steps))
CallDraw_memoized(c) ==
  /\ call[c].pc = "line23"
  /\ LET same == {d \in Callers \ {c} :
                    /\ call[d].pc \notin {"line18", "line23"}
                    /\ call[d].N_steps = call[c].N_steps
                    /\ call[d].N_paths = call[c].N_paths}
     IN  IF same # {}
         THEN /\ call' = [call EXCEPT
                   ![c].dW = call[CHOOSE d \in same : TRUE].dW,
                   ![c].rng_seen = rng,
                   ![c].pc = "line27"]
              /\ rng' = rng
         ELSE /\ call' = [call EXCEPT
                   ![c].dW = Normal(Zero, Sqrt(call[c].dt), call[c].N_paths,
                                    call[c].N_steps, rng),
                   ![c].rng_seen = rng,
                   ![c].pc = "line27"]
              /\ rng' = RngSkip(rng, call[c].N_paths * call[c].N_steps)
  /\ UNCHANGED <<rng0, scriptVars, shellVars>>
CallDraw(c) ==
  /\ call[c].pc = "line23"
  /\ call' = [call EXCEPT
       ![c].dW = Normal(Zero, Sqrt(call[c].dt), call[c].N_paths,
                        call[c].N_steps, rng),
       ![c].rng_seen = rng,
       ![c].pc = "line27"]
  /\ rng' = RngSkip(rng, call[c].N_paths * call[c].N_steps)
  /\ UNCHANGED <<rng0, scriptVars, shellVars>>

\* Wt_paths = np.zeros(...); Wt_paths[:, 1:] = np.cumsum(dW, axis=1); return
CallCumSum(c) ==
  /\ call[c].pc = "line27"
  /\ call' = [call EXCEPT
       ![c].Wt_paths = SetTail(Zeros(call[c].N_paths, call[c].N_steps + 1),
                               CumSum(call[c].dW)),
       ![c].pc = "returned"]
  /\ UNCHANGED <<rng, rng0, scriptVars, shellVars>>

\* The caller transforms and averages what it got back.
CallUse(c) ==
  /\ call[c].pc = "returned"
  /\ call' = [call EXCEPT
       ![c].squared = generate_squared_brownian_motion_martingale(
                         call[c].Wt_paths, call[c].time_points),
       ![c].average_path = Mean(call[c].Wt_paths),
       ![c].pc = "done"]
  /\ UNCHANGED <<rng, rng0, scriptVars, shellVars>>

NextCalls ==
  \E c \in Callers :
    \/ CallGrid(c)
    \/ CallDraw(c)
    \/ CallCumSum(c)
    \/ CallUse(c)

SpecCalls == InitCalls /\ [][NextCalls]_vars

\* ------------------------------------------------- the shell's session state
\* app.py: the pages of the streamlit shell, its session state, and what a
\* rerun does after each thing the user can do.  An ensemble held in the
\* session state is represented by what it was computed from.
DefaultT == 1
DefaultSteps == 252
DefaultPaths == 100
OtherT == 2
OtherSteps == 300
OtherPaths == 500

Pages == {"Introduction", "Brownian", "Squared", "Exponential", "RiskNeutral"}
None == [kind |-> "None", T |-> 0, N_steps |-> 0, N_paths |-> 0, theta |-> Zero]

\* The session state of a fresh session.
NewSession ==
  [current_page |-> "Introduction",
   T |-> DefaultT, N_steps |-> DefaultSteps, N_paths |-> DefaultPaths,
   theta_param |-> Half,
   Wt_paths_bm |-> None, time_points_bm |-> None,
   Wt_squared_minus_t_paths |-> None, exponential_martingale_paths |-> None]

\* simulate_brownian_motion(T, N_steps, N_paths) of the session's parameters.
SimulatedFor(ss, kind) ==
  [kind |-> kind, T |-> ss.T, N_steps |-> ss.N_steps, N_paths |-> ss.N_paths,
   theta |-> Zero]
\* A transform of the Brownian ensemble the session holds.
DerivedFrom(bm, kind, theta) ==
  [kind |-> kind, T |-> bm.T, N_steps |-> bm.N_steps, N_paths |-> bm.N_paths,
   theta |-> theta]

\* What a change of T, N_steps or N_paths drops from the session state.
Invalidate_keepDerived(ss) ==
  [ss EXCEPT !.Wt_paths_bm = None, !.time_points_bm = None]
Invalidate(ss) ==
  [ss EXCEPT !.Wt_paths_bm = None, !.time_points_bm = None,
             !.Wt_squared_minus_t_paths = None,
             !.exponential_martingale_paths = None]

\* The rerun of the script on the current page: each page computes what it
\* shows and the session does not hold.
Render(ss) ==
  CASE ss.current_page = "Brownian" /\ ss.Wt_paths_bm = None ->
         [ss EXCEPT !.Wt_paths_bm = SimulatedFor(ss, "paths"),
                    !.time_points_bm = SimulatedFor(ss, "grid")]
    [] /\ ss.current_page = "Squared"
       /\ ss.Wt_paths_bm # None
       /\ ss.Wt_squared_minus_t_paths = None ->
         [ss EXCEPT !.Wt_squared_minus_t_paths =
                      DerivedFrom(ss.Wt_paths_bm, "squared", Zero)]
    [] /\ ss.current_page = "Exponential"
       /\ ss.Wt_paths_bm # None
       /\ ss.exponential_martingale_paths = None ->
         [ss EXCEPT !.exponential_martingale_paths =
                      DerivedFrom(ss.Wt_paths_bm, "exponential", ss.theta_param)]
    [] OTHER -> ss

HasDerived(ss) ==
  ss.Wt_squared_minus_t_paths # None \/ ss.exponential_martingale_paths # None

InitShell ==
  /\ session_state = NewSession
  /\ last_event = "start"
  /\ rng = 0
  /\ ScriptIdle
  /\ call = NoCalls /\ rng0 = 0

\* The sidebar radio: go to a page.
Navigate ==
  /\ \E page \in Pages \ {session_state.current_page} :
       session_state' = Render([session_state EXCEPT !.current_page = page])
  /\ last_event' = "navigate"
  /\ UNCHANGED <<rng, scriptVars, callVars>>

\* One of the three sliders of the Brownian-motion page is moved.
ChangeParameter ==
  /\ session_state.current_page = "Brownian"
  /\ \E t \in {DefaultT, OtherT}, n \in {DefaultSteps, OtherSteps},
        np \in {DefaultPaths, OtherPaths} :
       /\ Cardinality({i \in 1..3 :
            <<t, n, np>>[i] # <<session_state.T, session_state.N_steps,
                                 session_state.N_paths>>[i]}) = 1
       /\ session_state' =
            Render(Invalidate([session_state EXCEPT
                     !.T = t, !.N_steps = n, !.N_paths = np]))
  /\ last_event' = IF HasDerived(session_state)
                   THEN "parameter change, derived ensembles held"
                   ELSE "parameter change"
  /\ UNCHANGED <<rng, scriptVars, callVars>>

\* The number input of the exponential-martingale page is changed.
ChangeTheta ==
  /\ session_state.current_page = "Exponential"
  /\ \E theta \in {Half, One} \ {session_state.theta_param} :
       session_state' =
         Render([session_state EXCEPT
                   !.theta_param = theta,
                   !.exponential_martingale_paths = None])
  /\ last_event' = "theta change"
  /\ UNCHANGED <<rng, scriptVars, callVars>>

NextShell ==
  \/ Navigate
  \/ ChangeParameter
  \/ ChangeTheta

SpecShell == InitShell /\ [][NextShell]_vars

\* ------------------------------------------------------------------- claims
Valid == Less(Zero, T) /\ N_steps >= 1 /\ N_paths >= 1
Returned == pc = "ready"
PathRows == 1..N_paths
StepCols == 1..N_steps

\* C1 (as claimed): a call with an invalid parameter (T <= 0, N_steps < 1 or
\* N_paths < 1) ends in an error raised before any array is allocated and
\* before any sample is drawn; it never returns.
C1_InvalidParameterFailsFast ==
  (pc # "start" /\ ~Valid) => (pc = "raised" /\ allocated = 0 /\ drawn = 0)

\* C2: for valid parameters the returned time grid has N_steps + 1 points,
\* starts at 0, ends at T, is strictly increasing, and every two consecutive
\* points differ by the dt = T / N_steps whose square root scales the draws.
C2_TimeGrid ==
  Returned =>
    /\ Len(time_points_bm) = N_steps + 1
    /\ time_points_bm[1] = Zero
    /\ time_points_bm[N_steps + 1] = T
    /\ \A k \in StepCols :
         /\ Less(time_points_bm[k], time_points_bm[k + 1])
         /\ Sub(time_points_bm[k + 1], time_points_bm[k]) = dt
    /\ Mul(dt, FromInt(N_steps)) = T

C2_Witness == Returned /\ N_steps >= 2 /\ T # One

\* C3: for valid parameters the returned ensemble has N_paths rows of
\* N_steps + 1 columns and column 0 is 0 on every path, whatever was drawn;
\* N_steps = 1 gives two columns.
C3_EnsembleShape ==
  Returned =>
    /\ Wt_paths_bm.shape = <<N_paths, N_steps + 1>>
    /\ Len(Wt_paths_bm.data) = N_paths
    /\ \A p \in PathRows :
         /\ Len(Wt_paths_bm.data[p]) = N_steps + 1
         /\ Wt_paths_bm.data[p][1] = Zero
    /\ (N_steps = 1 => Cols(Wt_paths_bm) = 2)

C3_Witness ==
  /\ Returned /\ N_steps = 1 /\ N_paths >= 2
  /\ \E p \in PathRows : dW.data[p][1] # Zero

\* C4: the squared transform keeps the shape, and entry (p, k) of its result
\* is Wt_paths[p][k]^2 - time_points[k]: column k meets grid point k on every
\* row, also when N_paths = N_steps + 1.
C4_SquaredMinusTime ==
  Wt_squared_minus_t_paths # NoArray =>
    /\ Wt_squared_minus_t_paths.shape = Wt_paths_bm.shape
    /\ \A p \in PathRows : \A k \in 1..(N_steps + 1) :
         Wt_squared_minus_t_paths.data[p][k] =
           Sub(Mul(Wt_paths_bm.data[p][k], Wt_paths_bm.data[p][k]),
               time_points_bm[k])

C4_Witness ==
  /\ Wt_squared_minus_t_paths # NoArray
  /\ N_paths = N_steps + 1
  /\ \E p \in PathRows : Wt_paths_bm.data[p][N_steps + 1] # Zero

\* C5: with theta = 0 the exponential transform keeps the shape and every
\* entry of its result is 1, whatever the paths and the grid.
C5_ThetaZeroAllOnes ==
  (exponential_martingale_paths # NoArray /\ theta_param = Zero) =>
    /\ exponential_martingale_paths.shape = Wt_paths_bm.shape
    /\ \A p \in PathRows : \A k \in 1..(N_steps + 1) :
         exponential_martingale_paths.data[p][k] = One

C5_Witness ==
  /\ exponential_martingale_paths # NoArray /\ theta_param = Zero
  /\ \E p \in PathRows : Wt_paths_bm.data[p][N_steps + 1] # Zero

\* The ensemble the last figure was drawn from.
Plotted == figure.process_paths

\* The sum of column k, last row first.
RECURSIVE ColumnSumUp(_, _, _)
ColumnSumUp(A, p, k) ==
  IF p > Rows(A) THEN Zero ELSE Add(A.data[p][k], ColumnSumUp(A, p + 1, k))

\* C6: the average path has N_steps + 1 entries, entry k being the sum of
\* column k over the N_paths paths divided by N_paths (stated as
\* N_paths * average = sum wherever the column is numeric); with one path it
\* is that path; computing it leaves the ensemble and the grid as simulate
\* returned them.
C6_AveragePath ==
  figure # NoFigure =>
    /\ Plotted.shape = <<N_paths, N_steps + 1>>
    /\ Len(figure.average_path) = N_steps + 1
    /\ \A k \in 1..(N_steps + 1) :
         /\ (\A p \in PathRows : IsNum(Plotted.data[p][k])) =>
              Mul(FromInt(N_paths), figure.average_path[k]) =
                ColumnSumUp(Plotted, 1, k)
         /\ N_paths = 1 => figure.average_path[k] = Plotted.data[1][k]
    /\ Wt_paths_bm = returned.Wt_paths
    /\ time_points_bm = returned.time_points

C6_Witness ==
  /\ figure.name = "W_t^2 - t" /\ N_paths >= 2 /\ N_steps >= 2
  /\ figure.average_path[N_steps + 1] # Zero
  /\ \E p \in PathRows :
       Plotted.data[p][N_steps + 1] # figure.average_path[N_steps + 1]

\* C9: a second generate_squared_brownian_motion_martingale call on the same
\* arguments returns what the first returned, and the calls leave the ensemble
\* and the grid they were given as simulate returned them.
C9_SquaredRepeatable ==
  previous_squared # NoArray =>
    /\ Wt_squared_minus_t_paths = previous_squared
    /\ Wt_paths_bm = returned.Wt_paths
    /\ time_points_bm = returned.time_points

C9_Witness ==
  /\ previous_squared # NoArray
  /\ \E p \in PathRows : Wt_paths_bm.data[p][N_steps + 1] \notin {Zero, One}

\* The sum of the first k increments of a row, last first.
RECURSIVE FirstIncrements(_, _)
FirstIncrements(row, k) ==
  IF k = 0 THEN Zero ELSE Add(row[k], FirstIncrements(row, k - 1))

\* C10: on every path p and for 1 <= k <= N_steps, Wt_paths[p][k] is the sum
\* of the first k increments of path p, so consecutive columns differ by that
\* path's own increment; N_paths * N_steps samples are drawn.
C10_PrefixSums ==
  Returned =>
    /\ dW.shape = <<N_paths, N_steps>>
    /\ drawn = N_paths * N_steps
    /\ \A p \in PathRows : \A k \in StepCols :
         /\ Wt_paths_bm.data[p][k + 1] = FirstIncrements(dW.data[p], k)
         /\ Sub(Wt_paths_bm.data[p][k + 1], Wt_paths_bm.data[p][k]) =
              dW.data[p][k]

C10_Witness ==
  /\ Returned /\ N_paths >= 2 /\ N_steps >= 2
  /\ dW.data[1][1] # dW.data[2][1]
  /\ dW.data[1][2] # Zero

\* What caller c's simulate call gives when it runs from generator state s
\* with nothing else running.
Alone(c, s) ==
  simulate_brownian_motion(call[c].T, call[c].N_steps, call[c].N_paths, s)

Done(c) == call # NoCalls /\ call[c].pc = "done"

\* C8 (as claimed): whatever the interleaving, each call's result is the one
\* it would have had running alone (from the generator state the program
\* started in).
C8_AsIfAlone ==
  \A c \in Callers :
    Done(c) =>
      /\ call[c].time_points = Alone(c, rng0).time_points
      /\ call[c].Wt_paths = Alone(c, rng0).Wt_paths

\* C8 (amended): the generator of np.random is the only state the calls share.
\* Whatever the interleaving, each call's time grid is the one it has running
\* alone, its ensemble is the one it has running alone from the generator
\* state it found at its draw, its transform and average are computed from
\* its own ensemble and grid, and the generator has been advanced by exactly
\* the samples of the batches drawn so far.
C8_SharedOnlyGenerator ==
  call # NoCalls =>
    /\ \A c \in Callers :
         Done(c) =>
           /\ call[c].time_points = Alone(c, rng0).time_points
           /\ call[c].dW = Alone(c, call[c].rng_seen).dW
           /\ call[c].Wt_paths = Alone(c, call[c].rng_seen).Wt_paths
           /\ call[c].squared =
                generate_squared_brownian_motion_martingale(
                  Alone(c, call[c].rng_seen).Wt_paths,
                  Alone(c, rng0).time_points)
           /\ call[c].average_path = Mean(Alone(c, call[c].rng_seen).Wt_paths)
    /\ (\A c \in Callers : Done(c)) =>
         \E c \in Callers :
           /\ call[c].rng_seen = rng0
           /\ \A d \in Callers \ {c} :
                call[d].rng_seen = Alone(c, rng0).rng
                /\ rng = Alone(d, call[d].rng_seen).rng

C8_Witness ==
  /\ \A c \in Callers : Done(c)
  /\ call[1].N_steps = call[2].N_steps /\ call[1].N_paths = call[2].N_paths
  /\ call[1].Wt_paths # call[2].Wt_paths
  /\ call[2].rng_seen = rng0

ParameterChanged ==
  last_event \in {"parameter change", "parameter change, derived ensembles held"}

\* Whether a held ensemble was computed from the session's current T, N_steps
\* and N_paths.
Current(e) ==
  /\ e.T = session_state.T
  /\ e.N_steps = session_state.N_steps
  /\ e.N_paths = session_state.N_paths

\* C7: in the state that a change of T, N_steps or N_paths on the
\* Brownian-motion page results in, the Brownian ensemble and its grid are
\* present and both derived ensembles are None; a derived ensemble appears
\* only on a visit of its own page; and a derived ensemble held in the state
\* was computed from the Brownian ensemble held in the state, which was
\* computed from the current parameters.
C7_Invalidation ==
  /\ [](session_state # NoSession =>
        /\ ParameterChanged =>
             /\ session_state.Wt_paths_bm # None
             /\ session_state.time_points_bm # None
             /\ session_state.Wt_squared_minus_t_paths = None
             /\ session_state.exponential_martingale_paths = None
        /\ session_state.Wt_paths_bm # None => Current(session_state.Wt_paths_bm)
        /\ \A e \in {session_state.Wt_squared_minus_t_paths,
                     session_state.exponential_martingale_paths} :
             e # None => (session_state.Wt_paths_bm # None /\ Current(e)))
  /\ [][/\ (session_state.Wt_squared_minus_t_paths = None
            /\ session_state'.Wt_squared_minus_t_paths # None)
             => session_state'.current_page = "Squared"
        /\ (session_state.exponential_martingale_paths = None
            /\ session_state'.exponential_martingale_paths # None)
             => session_state'.current_page = "Exponential"]_vars

C7_Witness ==
  /\ last_event = "parameter change, derived ensembles held"
  /\ session_state.T = OtherT
  /\ session_state.Wt_paths_bm # None
  /\ session_state.Wt_squared_minus_t_paths = None

====
